---- MODULE Spec2Model ----
(***************************************************************************)
(* Schedule resolution of the Krakow tram simulator: the time domain       *)
(* (data_loader.parse_time_string, StopTime.to_minutes), the trip and      *)
(* block resolvers of models.py, get_tram_position_at_time of              *)
(* visualizer.py and route_segment_coords of utils.py.                     *)
(*                                                                         *)
(* Every resolver is a pure function of loaded schedule data and a query   *)
(* time.  The state holds the loaded data, the last call made on it and    *)
(* the value that call returned.                                           *)
(*                                                                         *)
(* Python values: an Optional is <<>> (None) or <<v>>; a str is a tuple    *)
(* of one-character strings; a float coordinate is an exact rational       *)
(* <<num, den>> in lowest terms (rounding of floats is not modelled); an   *)
(* exception that leaves a function is the record [exc |-> name].          *)
(*                                                                         *)
(* The page script generated by add_animated_trams_to_map is modelled by   *)
(* its own variables: its three callbacks (map ready, timer tick, button   *)
(* click) run one at a time, as the browser's event loop runs them.        *)
(***************************************************************************)
EXTENDS Integers, Sequences, FiniteSets, TLC

VARIABLES
    block,      \* TramBlock.trips of the block under query (models.py:101)
    loaded,     \* StopTime objects built by the loader, in load order
    route,      \* the polyline handed to route_segment_coords
    call,       \* the last call: [op, ...arguments]
    ret,        \* what that call returned
    currentTime,       \* simulated minute of the page script (visualizer.py:192)
    isRunning,         \* play/pause flag (visualizer.py:195)
    animationTimeout,  \* id kept of the last timer set by updateTrams
    timers,            \* ids of the browser timers set and neither run nor cleared
    timerCount,        \* setTimeout calls made so far; ids are 1, 2, ...
    timeDisplay,       \* <<hours, minutes>> shown in #simulation-time
    btnText,           \* text of #play-pause-btn
    marker             \* the tram's marker: [latlng, opacity]

animVars ==
    <<currentTime, isRunning, animationTimeout, timers, timerCount,
      timeDisplay, btnText, marker>>

vars == <<block, loaded, route, call, ret, animVars>>

----------------------------------------------------------------------------
(* Bounds of the model. *)

\* stop_times entries of one block file (data_loader.py:151), over all trips
MaxStopTimes == 3
\* trips entries of one block file (data_loader.py:179)
MaxTrips == 3
\* stop times of the single trip of SpecTrip
MaxStops == 3
\* StopTime objects loaded in SpecTime
MaxLoaded == 2
\* vertices of the polyline of SpecRoute
MaxRoute == 4
\* updates followed after the animation has completed
MaxOverrun == 2

----------------------------------------------------------------------------
(* Python helpers. *)

None == <<>>

Some(v) == <<v>>

Raise(name) == [exc |-> name]

Abs(n) == IF n < 0 THEN -n ELSE n

RECURSIVE Gcd(_, _)
Gcd(a, b) == IF b = 0 THEN a ELSE Gcd(b, a % b)

\* the rational n/d, d # 0, in lowest terms with a positive denominator
Rat(n, d) ==
    LET g == Gcd(Abs(n), Abs(d))
        sg == IF d < 0 THEN -1 ELSE 1
    IN  <<(sg * n) \div g, (sg * d) \div g>>

RatLeq(p, q) == p[1] * q[2] <= q[1] * p[2]

RatAdd(p, q) == Rat(p[1] * q[2] + q[1] * p[2], p[2] * q[2])

RatSub(p, q) == Rat(p[1] * q[2] - q[1] * p[2], p[2] * q[2])

RatMul(p, q) == Rat(p[1] * q[1], p[2] * q[2])

----------------------------------------------------------------------------
(* Time domain: data_loader.parse_time_string and datetime.time. *)

Digits == <<"0", "1", "2", "3", "4", "5", "6", "7", "8", "9">>

IsDigit(c) == \E d \in DOMAIN Digits : Digits[d] = c

DigitValue(c) == (CHOOSE d \in DOMAIN Digits : Digits[d] = c) - 1

\* str.split(sep): the fields of s between the separators, always at least one
RECURSIVE SplitFrom(_, _, _, _)
SplitFrom(s, sep, i, field) ==
    IF i > Len(s) THEN <<field>>
    ELSE IF s[i] = sep THEN <<field>> \o SplitFrom(s, sep, i + 1, <<>>)
    ELSE SplitFrom(s, sep, i + 1, Append(field, s[i]))

Split(s, sep) == SplitFrom(s, sep, 1, <<>>)

RECURSIVE DecimalValue(_)
DecimalValue(ds) ==
    IF ds = <<>> THEN 0
    ELSE 10 * DecimalValue(SubSeq(ds, 1, Len(ds) - 1)) + DigitValue(ds[Len(ds)])

\* int(str): an optional sign and decimal digits; anything else is a ValueError
PyInt(field) ==
    LET signed == field # <<>> /\ field[1] \in {"+", "-"}
        ds == IF signed THEN Tail(field) ELSE field
    IN  IF ds = <<>> \/ \E i \in DOMAIN ds : ~IsDigit(ds[i])
        THEN [exc |-> "ValueError", val |-> 0]
        ELSE [exc |-> "",
              val |-> IF signed /\ field[1] = "-"
                      THEN -DecimalValue(ds) ELSE DecimalValue(ds)]

IsExc(v) == "exc" \in DOMAIN v

\* datetime.time(hour, minute, second): range-checked by the constructor
PyTime(hour, minute, second) ==
    IF hour \in 0..23 /\ minute \in 0..59 /\ second \in 0..59
    THEN [hour |-> hour, minute |-> minute, second |-> second]
    ELSE Raise("ValueError")

\* the statements of parse_time_string in order: each int(parts[k]) first
\* indexes parts (IndexError) and then converts (ValueError)
parse_time_string(time_str) ==
    LET parts == Split(time_str, ":")
        hour == PyInt(parts[1])
        minute == PyInt(parts[2])
        second == PyInt(parts[3])
    IN  IF hour.exc # "" THEN Raise(hour.exc)
        ELSE IF Len(parts) < 2 THEN Raise("IndexError")
        ELSE IF minute.exc # "" THEN Raise(minute.exc)
        ELSE IF Len(parts) < 3 THEN Raise("IndexError")
        ELSE IF second.exc # "" THEN Raise(second.exc)
        ELSE PyTime(IF hour.val >= 24 THEN hour.val % 24 ELSE hour.val,
                    minute.val, second.val)

----------------------------------------------------------------------------
(* models.StopTime and models.Trip. *)

\* StopTime(...) as the loader constructs it (data_loader.py:156-168)
StopTime(departure_time_str, lat, lon) ==
    [departure_time |-> parse_time_string(departure_time_str),
     departure_time_str |-> departure_time_str,
     stop_lat |-> lat, stop_lon |-> lon]

to_minutes(st) == st.departure_time.hour * 60 + st.departure_time.minute

get_start_time_minutes(trip) ==
    IF trip.stop_times # <<>> THEN to_minutes(trip.stop_times[1]) ELSE 0

get_end_time_minutes(trip) ==
    IF trip.stop_times # <<>>
    THEN to_minutes(trip.stop_times[Len(trip.stop_times)])
    ELSE 0

\* is_active_at with the arrival instant excluded
is_active_at_exclusive(trip, time_minutes) ==
    /\ get_start_time_minutes(trip) <= time_minutes
    /\ time_minutes < get_end_time_minutes(trip)

is_active_at(trip, time_minutes) ==
    /\ get_start_time_minutes(trip) <= time_minutes
    /\ time_minutes <= get_end_time_minutes(trip)

\* the loop of get_current_segment with the departure instant excluded
RECURSIVE SegmentFrom_strict(_, _, _)
SegmentFrom_strict(stop_times, time_minutes, i) ==
    IF i > Len(stop_times) - 1 THEN None
    ELSE IF /\ to_minutes(stop_times[i]) < time_minutes
            /\ time_minutes <= to_minutes(stop_times[i + 1])
         THEN Some(<<stop_times[i], stop_times[i + 1]>>)
         ELSE SegmentFrom_strict(stop_times, time_minutes, i + 1)

\* the loop of get_current_segment from index i on
RECURSIVE SegmentFrom(_, _, _)
SegmentFrom(stop_times, time_minutes, i) ==
    IF i > Len(stop_times) - 1 THEN None
    ELSE IF /\ to_minutes(stop_times[i]) <= time_minutes
            /\ time_minutes <= to_minutes(stop_times[i + 1])
         THEN Some(<<stop_times[i], stop_times[i + 1]>>)
         ELSE SegmentFrom(stop_times, time_minutes, i + 1)

get_current_segment(trip, time_minutes) ==
    IF ~is_active_at(trip, time_minutes) THEN None
    ELSE SegmentFrom(trip.stop_times, time_minutes, 1)

----------------------------------------------------------------------------
(* models.TramBlock: trips is the sequence of the block's Trip objects. *)

\* the loop of get_active_trip from index i on
RECURSIVE ActiveTripFrom(_, _, _)
ActiveTripFrom(trips, time_minutes, i) ==
    IF i > Len(trips) THEN None
    ELSE IF is_active_at(trips[i], time_minutes) THEN Some(trips[i])
    ELSE ActiveTripFrom(trips, time_minutes, i + 1)

get_active_trip(trips, time_minutes) == ActiveTripFrom(trips, time_minutes, 1)

\* get_status_at_time with the duty span ended by the first trip
get_status_at_time_first_end(trips, time_minutes) ==
    IF get_active_trip(trips, time_minutes) # None THEN "IN_TRANSIT"
    ELSE IF /\ trips # <<>>
            /\ get_start_time_minutes(trips[1]) <= time_minutes
            /\ time_minutes <= get_end_time_minutes(trips[1])
         THEN "AT_TERMINUS"
         ELSE "IN_DEPOT"

\* get_status_at_time with a duty span that never ends
get_status_at_time_no_end(trips, time_minutes) ==
    IF get_active_trip(trips, time_minutes) # None THEN "IN_TRANSIT"
    ELSE IF /\ trips # <<>>
            /\ get_start_time_minutes(trips[1]) <= time_minutes
         THEN "AT_TERMINUS"
         ELSE "IN_DEPOT"

\* get_status_at_time with a duty span that has no beginning
get_status_at_time_no_start(trips, time_minutes) ==
    IF get_active_trip(trips, time_minutes) # None THEN "IN_TRANSIT"
    ELSE IF /\ trips # <<>>
            /\ time_minutes <= get_end_time_minutes(trips[Len(trips)])
         THEN "AT_TERMINUS"
         ELSE "IN_DEPOT"

get_status_at_time(trips, time_minutes) ==
    IF get_active_trip(trips, time_minutes) # None THEN "IN_TRANSIT"
    ELSE IF /\ trips # <<>>
            /\ get_start_time_minutes(trips[1]) <= time_minutes
            /\ time_minutes <= get_end_time_minutes(trips[Len(trips)])
         THEN "AT_TERMINUS"
         ELSE "IN_DEPOT"

----------------------------------------------------------------------------
(* visualizer.interpolate_position and visualizer.get_tram_position_at_time *)

\* the interpolation without the clamp of progress to [0, 1]
interpolate_position_unclamped(start_pos, end_pos, start_time_minutes, end_time_minutes, current_time_minutes) ==
    IF end_time_minutes = start_time_minutes THEN start_pos
    ELSE LET progress == Rat(current_time_minutes - start_time_minutes,
                             end_time_minutes - start_time_minutes)
         IN  <<RatAdd(start_pos[1],
                      RatMul(RatSub(end_pos[1], start_pos[1]), progress)),
               RatAdd(start_pos[2],
                      RatMul(RatSub(end_pos[2], start_pos[2]), progress))>>

interpolate_position(start_pos, end_pos, start_time_minutes, end_time_minutes, current_time_minutes) ==
    IF end_time_minutes = start_time_minutes THEN start_pos
    ELSE LET raw == Rat(current_time_minutes - start_time_minutes,
                        end_time_minutes - start_time_minutes)
             capped == IF RatLeq(<<1, 1>>, raw) THEN <<1, 1>> ELSE raw
             progress == IF RatLeq(capped, <<0, 1>>) THEN <<0, 1>> ELSE capped
         IN  <<RatAdd(start_pos[1],
                      RatMul(RatSub(end_pos[1], start_pos[1]), progress)),
               RatAdd(start_pos[2],
                      RatMul(RatSub(end_pos[2], start_pos[2]), progress))>>

\* the completed-trip loop stopping at the first trip that qualifies
RECURSIVE LastTripFrom_first(_, _, _, _)
LastTripFrom_first(trips, time_minutes, i, last_trip) ==
    IF i > Len(trips) THEN last_trip
    ELSE IF get_end_time_minutes(trips[i]) <= time_minutes THEN Some(trips[i])
    ELSE LastTripFrom_first(trips, time_minutes, i + 1, last_trip)

\* the loop that looks for the trip a waiting tram has completed: last_trip
\* after the trips from index i on have been visited
RECURSIVE LastTripFrom(_, _, _, _)
LastTripFrom(trips, time_minutes, i, last_trip) ==
    IF i > Len(trips) THEN last_trip
    ELSE LastTripFrom(trips, time_minutes, i + 1,
                      IF get_end_time_minutes(trips[i]) <= time_minutes
                      THEN Some(trips[i]) ELSE last_trip)

get_tram_position_at_time(trips, time_minutes) ==
    LET status == get_status_at_time(trips, time_minutes)
        active_trip == get_active_trip(trips, time_minutes)
        last_trip == LastTripFrom(trips, time_minutes, 1, None)
        segment == get_current_segment(active_trip[1], time_minutes)
        prev_stop == segment[1][1]
        next_stop == segment[1][2]
    IN  IF status = "IN_DEPOT" THEN None
        ELSE IF active_trip = None
             THEN IF last_trip # None /\ last_trip[1].stop_times # <<>>
                  THEN LET stops == last_trip[1].stop_times
                           last_stop == stops[Len(stops)]
                       IN  Some(<<last_stop.stop_lat, last_stop.stop_lon>>)
                  ELSE None
        ELSE IF segment = None THEN None
        ELSE Some(interpolate_position(
                      <<prev_stop.stop_lat, prev_stop.stop_lon>>,
                      <<next_stop.stop_lat, next_stop.stop_lon>>,
                      to_minutes(prev_stop), to_minutes(next_stop),
                      time_minutes))

----------------------------------------------------------------------------
(* utils.route_segment_coords.  Indices are Python's, from 0: the element  *)
(* of index i of a list is seq[i + 1].                                     *)

\* math.dist(p, q) squared: min(..., key=dist) orders by it as by dist
Dist2(p, q) == (p[1] - q[1]) * (p[1] - q[1]) + (p[2] - q[2]) * (p[2] - q[2])

\* min(range(len(route)), key=...) after the indices below i: best is the
\* first index of the least key so far
RECURSIVE MinIndexFrom(_, _, _, _)
MinIndexFrom(point, points, i, best) ==
    IF i >= Len(points) THEN best
    ELSE MinIndexFrom(point, points, i + 1,
                      IF Dist2(point, points[i + 1]) < Dist2(point, points[best + 1])
                      THEN i ELSE best)

\* min() of an empty range raises ValueError
MinIndex(point, points) ==
    IF points = <<>> THEN Raise("ValueError")
    ELSE [exc |-> "", val |-> MinIndexFrom(point, points, 1, 0)]

\* a bound of a slice as PySlice_AdjustIndices clips it to the list
AdjustIndex(i, length, step) ==
    IF i < 0
    THEN IF i + length < 0 THEN (IF step < 0 THEN -1 ELSE 0) ELSE i + length
    ELSE IF i >= length THEN (IF step < 0 THEN length - 1 ELSE length) ELSE i

\* seq[start:stop:step] for step = 1 or -1
PySlice(seq, start, stop, step) ==
    LET a == AdjustIndex(start, Len(seq), step)
        b == AdjustIndex(stop, Len(seq), step)
        n == IF step < 0
             THEN (IF b < a THEN a - b ELSE 0)
             ELSE (IF a < b THEN b - a ELSE 0)
    IN  [k \in 1..n |-> seq[a + (k - 1) * step + 1]]

\* route_segment_coords with the reverse slice stopping before end
route_segment_coords_exclusive(s_start, s_end, points) ==
    LET start == MinIndex(s_start, points)
        end == MinIndex(s_end, points)
    IN  IF start.exc # "" THEN Raise(start.exc)
        ELSE IF start.val <= end.val
             THEN PySlice(points, start.val, end.val + 1, 1)
             ELSE PySlice(points, start.val, end.val, -1)

\* route_segment_coords with the forward slice stopping before end
route_segment_coords_short(s_start, s_end, points) ==
    LET start == MinIndex(s_start, points)
        end == MinIndex(s_end, points)
    IN  IF start.exc # "" THEN Raise(start.exc)
        ELSE IF start.val <= end.val
             THEN PySlice(points, start.val, end.val, 1)
             ELSE PySlice(points, start.val, end.val - 1, -1)

route_segment_coords(s_start, s_end, points) ==
    LET start == MinIndex(s_start, points)
        end == MinIndex(s_end, points)
    IN  IF start.exc # "" THEN Raise(start.exc)
        ELSE IF start.val <= end.val
             THEN PySlice(points, start.val, end.val + 1, 1)
             ELSE PySlice(points, start.val, end.val - 1, -1)

----------------------------------------------------------------------------
(* Schedule data.  departure_time strings are "HH:MM:SS" of one service   *)
(* day; hours 24 and up are the GTFS notation for after midnight.          *)

TwoDigits(n) == <<Digits[(n \div 10) + 1], Digits[(n % 10) + 1]>>

TimeStr(h, m, s) ==
    TwoDigits(h) \o <<":">> \o TwoDigits(m) \o <<":">> \o TwoDigits(s)

\* departure times of the stop times of a block file
BlockDepartureTimes == {TimeStr(23, 50, 0), TimeStr(23, 55, 0), TimeStr(24, 0, 0)}

\* the simulation minutes a block is queried at
BlockQueryTimes == {0, 1, 1429, 1430, 1432, 1435, 1436}

\* departure times of the stop times of the trip of SpecTrip
TripDepartureTimes ==
    {TimeStr(23, 50, 0), TimeStr(23, 55, 0), TimeStr(24, 0, 0), TimeStr(24, 5, 0)}

\* the simulation minutes a trip is queried at
TripQueryTimes == {0, 2, 5, 6, 1429, 1430, 1432, 1435, 1436}

\* the trips the loader builds (data_loader.py:148-204) from a block file
\* whose n stop_times entries have the departure times f[1..n] and belong
\* to the trips g[1..n] of its j trips entries; the k-th stop of trip i is
\* at the coordinates (10 i, 10 k)
TripsOf(f, g, n, j) ==
    [i \in 1..j |->
        LET before == Cardinality({k \in 1..n : g[k] < i})
            count == Cardinality({k \in 1..n : g[k] = i})
        IN  [stop_times |->
                [k \in 1..count |->
                    StopTime(f[before + k], <<10 * i, 1>>, <<10 * k, 1>>)]]]

\* every block of at most MaxTrips trips and MaxStopTimes stop times
Blocks ==
    UNION {UNION {{TripsOf(f, g, n, j) :
                      f \in [1..n -> BlockDepartureTimes],
                      g \in {h \in [1..n -> 1..j] :
                                \A k \in 1..(n - 1) : h[k] <= h[k + 1]}} :
                  n \in 0..MaxStopTimes} :
           j \in 0..MaxTrips}

\* every trip of at most MaxStops stop times
Trips ==
    UNION {{TripsOf(f, [k \in 1..n |-> 1], n, 1)[1] :
               f \in [1..n -> TripDepartureTimes]} :
           n \in 0..MaxStops}

----------------------------------------------------------------------------
(* Spec: queries on one loaded block. *)

NoCall == [op |-> "none"]

\* first simulated minute, the default of start_time_minutes
StartTime == 3 * 60

\* last simulated minute, the default of end_time_minutes
endTime == 24 * 60

\* the page script's variables as declared, before any page is opened
NoAnimation ==
    /\ currentTime = StartTime
    /\ isRunning = TRUE
    /\ animationTimeout = None
    /\ timers = {}
    /\ timerCount = 0
    /\ timeDisplay = <<3, 0>>
    /\ btnText = "Pause"
    /\ marker = None

Init ==
    /\ block \in Blocks
    /\ loaded = <<>>
    /\ route = <<>>
    /\ call = NoCall
    /\ ret = None
    /\ NoAnimation

GetActiveTrip(t) ==
    /\ call' = [op |-> "get_active_trip", time_minutes |-> t]
    /\ ret' = get_active_trip(block, t)
    /\ UNCHANGED <<block, loaded, route, animVars>>

GetStatusAtTime(t) ==
    /\ call' = [op |-> "get_status_at_time", time_minutes |-> t]
    /\ ret' = get_status_at_time(block, t)
    /\ UNCHANGED <<block, loaded, route, animVars>>

GetTramPositionAtTime(t) ==
    /\ call' = [op |-> "get_tram_position_at_time", time_minutes |-> t]
    /\ ret' = get_tram_position_at_time(block, t)
    /\ UNCHANGED <<block, loaded, route, animVars>>

Next ==
    \E t \in BlockQueryTimes :
        \/ GetActiveTrip(t)
        \/ GetStatusAtTime(t)
        \/ GetTramPositionAtTime(t)

Spec == Init /\ [][Next]_vars

----------------------------------------------------------------------------
(* SpecTrip: queries on one loaded trip, block[1]. *)

InitTrip ==
    /\ block \in {<<trip>> : trip \in Trips}
    /\ loaded = <<>>
    /\ route = <<>>
    /\ call = NoCall
    /\ ret = None
    /\ NoAnimation

IsActiveAt(t) ==
    /\ call' = [op |-> "is_active_at", time_minutes |-> t]
    /\ ret' = is_active_at(block[1], t)
    /\ UNCHANGED <<block, loaded, route, animVars>>

GetCurrentSegment(t) ==
    /\ call' = [op |-> "get_current_segment", time_minutes |-> t]
    /\ ret' = get_current_segment(block[1], t)
    /\ UNCHANGED <<block, loaded, route, animVars>>

NextTrip ==
    \E t \in TripQueryTimes :
        \/ IsActiveAt(t)
        \/ GetCurrentSegment(t)

SpecTrip == InitTrip /\ [][NextTrip]_vars

----------------------------------------------------------------------------
(* SpecTime: the loader turns departure_time strings into StopTime objects *)
(* (data_loader.py:156-172); an exception of parse_time_string leaves the  *)
(* loader and no StopTime is built.                                        *)

\* departure_time strings of a block file: times of a service day up to
\* 48:00, and strings that are not HH:MM:SS
TimeStrings ==
    {TimeStr(0, 0, 0), TimeStr(0, 30, 0), TimeStr(23, 59, 0), TimeStr(24, 0, 0),
     TimeStr(24, 30, 0), TimeStr(25, 10, 0), TimeStr(47, 59, 0), TimeStr(48, 0, 0),
     <<"1", "2", ":", "3", "0">>,
     <<"a", "b", ":", "0", "0", ":", "0", "0">>,
     TimeStr(8, 0, 0) \o <<":", "0", "0">>,
     TimeStr(8, 60, 0)}

InitTime ==
    /\ block = <<>>
    /\ loaded = <<>>
    /\ route = <<>>
    /\ call = NoCall
    /\ ret = None
    /\ NoAnimation

LoadStopTime(time_str) ==
    /\ Len(loaded) < MaxLoaded
    /\ call' = [op |-> "parse_time_string", time_str |-> time_str]
    /\ ret' = parse_time_string(time_str)
    /\ loaded' = IF IsExc(parse_time_string(time_str)) THEN loaded
                 ELSE Append(loaded, StopTime(time_str, <<0, 1>>, <<0, 1>>))
    /\ UNCHANGED <<block, route, animVars>>

NextTime == \E time_str \in TimeStrings : LoadStopTime(time_str)

SpecTime == InitTime /\ [][NextTime]_vars

----------------------------------------------------------------------------
(* SpecRoute: route_segment_coords on one polyline. *)

RoutePoints == {<<0, 0>>, <<2, 0>>, <<0, 2>>}

\* stop coordinates: the vertices and a point as near to <<0, 0>> as to <<2, 0>>
QueryPoints == RoutePoints \cup {<<1, 0>>}

Routes == UNION {[1..n -> RoutePoints] : n \in 0..MaxRoute}

InitRoute ==
    /\ block = <<>>
    /\ loaded = <<>>
    /\ route \in Routes
    /\ call = NoCall
    /\ ret = None
    /\ NoAnimation

RouteSegmentCoords(s_start, s_end) ==
    /\ call' = [op |-> "route_segment_coords", s_start |-> s_start, s_end |-> s_end]
    /\ ret' = route_segment_coords(s_start, s_end, route)
    /\ UNCHANGED <<block, loaded, route, animVars>>

NextRoute == \E s_start, s_end \in QueryPoints : RouteSegmentCoords(s_start, s_end)

SpecRoute == InitRoute /\ [][NextRoute]_vars

----------------------------------------------------------------------------
(* visualizer.interpolate_position called on its own, with the query minute
   before, inside and after the segment and with segments of zero and of
   negative length. *)

\* positions with whole-number coordinates, as pairs of rationals
InterpPositions ==
    {<<<<0, 1>>, <<0, 1>>>>, <<<<10, 1>>, <<-20, 1>>>>, <<<<5, 1>>, <<5, 1>>>>}

SegmentMinutes == {480, 485}

InterpQueryTimes == {478, 480, 482, 485, 487}

InitInterp ==
    /\ block = <<>>
    /\ loaded = <<>>
    /\ route = <<>>
    /\ call = NoCall
    /\ ret = None
    /\ NoAnimation

InterpolatePosition(start_pos, end_pos, start_time_minutes, end_time_minutes, current_time_minutes) ==
    /\ call' = [op |-> "interpolate_position",
                start_pos |-> start_pos, end_pos |-> end_pos,
                start_time_minutes |-> start_time_minutes,
                end_time_minutes |-> end_time_minutes,
                current_time_minutes |-> current_time_minutes]
    /\ ret' = interpolate_position(start_pos, end_pos, start_time_minutes,
                                   end_time_minutes, current_time_minutes)
    /\ UNCHANGED <<block, loaded, route, animVars>>

NextInterp ==
    \E start_pos, end_pos \in InterpPositions :
        \E start_time_minutes, end_time_minutes \in SegmentMinutes :
            \E current_time_minutes \in InterpQueryTimes :
                InterpolatePosition(start_pos, end_pos, start_time_minutes,
                                    end_time_minutes, current_time_minutes)

SpecInterp == InitInterp /\ [][NextInterp]_vars

----------------------------------------------------------------------------
(* SpecAnim: the page script of add_animated_trams_to_map for one tram,
   from the moment DOMContentLoaded has run. *)

\* blocks that have a position in the window, so that a script is generated
AnimBlocks ==
    {TripsOf(<<TimeStr(23, 50, 0), TimeStr(23, 55, 0)>>, <<1, 1>>, 2, 1),
     TripsOf(<<TimeStr(23, 50, 0), TimeStr(23, 50, 0), TimeStr(23, 55, 0)>>, <<1, 2, 2>>, 3, 2)}

\* the entry of the precomputed positions list at this minute, or null
getPositionAtTime(b, time) ==
    IF StartTime <= time /\ time <= endTime
    THEN get_tram_position_at_time(b, time)
    ELSE None

\* positions[0], where the marker is created
FirstPosition(b) ==
    LET first == CHOOSE t \in StartTime..endTime :
                     /\ getPositionAtTime(b, t) # None
                     /\ \A u \in StartTime..(t - 1) : getPositionAtTime(b, u) = None
    IN  getPositionAtTime(b, first)[1]

InitAnim ==
    /\ block \in AnimBlocks
    /\ loaded = <<>>
    /\ route = <<>>
    /\ call = NoCall
    /\ ret = None
    /\ currentTime = StartTime
    /\ isRunning = TRUE
    /\ animationTimeout = None
    /\ timers = {1}
    /\ timerCount = 1
    /\ timeDisplay = <<3, 0>>
    /\ btnText = "Pause"
    /\ marker = [latlng |-> FirstPosition(block), opacity |-> 1]

\* the body of updateTrams, run with the given flag, pending timers and marker
updateTrams(running, pending, shownMarker) ==
    LET pos == getPositionAtTime(block, currentTime)
    IN  /\ timeDisplay' = <<currentTime \div 60, currentTime % 60>>
        /\ marker' = IF pos # None
                      THEN [latlng |-> pos[1], opacity |-> 1]
                      ELSE [shownMarker EXCEPT !.opacity = 0]
        /\ currentTime' = currentTime + 1
        /\ IF currentTime + 1 <= endTime /\ running
           THEN /\ timerCount' = timerCount + 1
                /\ animationTimeout' = Some(timerCount + 1)
                /\ timers' = pending \cup {timerCount + 1}
           ELSE /\ timers' = pending
                /\ UNCHANGED <<timerCount, animationTimeout>>

\* the callback of the one-second start-up timer: hide the marker, define
\* toggleAnimation and run the first update
MapReady ==
    /\ 1 \in timers
    /\ updateTrams(isRunning, timers \ {1}, [marker EXCEPT !.opacity = 0])
    /\ UNCHANGED <<block, loaded, route, call, ret, isRunning, btnText>>

\* a timer set by updateTrams runs
Tick ==
    /\ animationTimeout # None
    /\ animationTimeout[1] \in timers
    /\ updateTrams(isRunning, timers \ {animationTimeout[1]}, marker)
    /\ UNCHANGED <<block, loaded, route, call, ret, isRunning, btnText>>

\* a click on the play/pause button once toggleAnimation is defined
toggleAnimation ==
    /\ 1 \notin timers
    /\ currentTime <= endTime + MaxOverrun
    /\ isRunning' = ~isRunning
    /\ IF ~isRunning
       THEN /\ btnText' = "Pause"
            /\ updateTrams(TRUE, timers, marker)
       ELSE /\ btnText' = "Play"
            /\ timers' = IF animationTimeout # None
                          THEN timers \ {animationTimeout[1]}
                          ELSE timers
            /\ UNCHANGED <<currentTime, animationTimeout, timerCount, timeDisplay, marker>>
    /\ UNCHANGED <<block, loaded, route, call, ret>>

NextAnim == MapReady \/ Tick \/ toggleAnimation

SpecAnim == InitAnim /\ [][NextAnim]_vars

----------------------------------------------------------------------------
(* Properties of the block resolver, under Spec. *)

\* the query time of the last call
QueryTime == call.time_minutes

\* some trip of the block has startMinute <= t <= endMinute
AnyTripActive ==
    \E i \in DOMAIN block :
        /\ get_start_time_minutes(block[i]) <= QueryTime
        /\ QueryTime <= get_end_time_minutes(block[i])

\* t is outside [firstTrip.startMinute, lastTrip.endMinute]
OutsideDutySpan ==
    \/ QueryTime < get_start_time_minutes(block[1])
    \/ QueryTime > get_end_time_minutes(block[Len(block)])

Statuses == {"IN_TRANSIT", "AT_TERMINUS", "IN_DEPOT"}

\* C1 as claimed: statusAt is one of the three states and, for a block with
\* a trip, is IN_DEPOT exactly when t is outside
\* [firstTrip.startMinute, lastTrip.endMinute], whatever the order of trips.
C1_Original ==
    call.op = "get_status_at_time" =>
        /\ ret \in Statuses
        /\ block # <<>> => (ret = "IN_DEPOT" <=> OutsideDutySpan)

\* C1 amended: statusAt is one of the three states and, for a block with a
\* trip, is IN_DEPOT exactly when no trip is active at t and t is outside
\* [firstTrip.startMinute, lastTrip.endMinute].
C1_DepotIffOutsideAndIdle ==
    call.op = "get_status_at_time" =>
        /\ ret \in Statuses
        /\ block # <<>> =>
              (ret = "IN_DEPOT" <=> (~AnyTripActive /\ OutsideDutySpan))

\* a block of several trips is in the depot after its last trip has ended
C1_Witness ==
    /\ call.op = "get_status_at_time"
    /\ Len(block) >= 2
    /\ QueryTime > get_end_time_minutes(block[Len(block)])
    /\ QueryTime >= get_start_time_minutes(block[1])
    /\ ~AnyTripActive
    /\ ret = "IN_DEPOT"

\* the block has one trip, of two stop times or more, spanning [s, e]
SingleTripCase ==
    /\ Len(block) = 1
    /\ Len(block[1].stop_times) >= 2
    /\ get_start_time_minutes(block[1]) <= get_end_time_minutes(block[1])

\* the coordinates of the last StopTime of a trip, None for a trip without
LastStopPosition(trip) ==
    IF trip.stop_times = <<>> THEN None
    ELSE LET last_stop == trip.stop_times[Len(trip.stop_times)]
         IN  Some(<<last_stop.stop_lat, last_stop.stop_lon>>)

\* C2 as claimed: a block whose only trip spans [s, e] is IN_DEPOT before s,
\* IN_TRANSIT from s to e, and after e AT_TERMINUS at the trip's last stop.
C2_Original ==
    SingleTripCase =>
        LET s == get_start_time_minutes(block[1])
            e == get_end_time_minutes(block[1])
        IN  /\ call.op = "get_status_at_time" =>
                /\ QueryTime < s => ret = "IN_DEPOT"
                /\ (s <= QueryTime /\ QueryTime <= e) => ret = "IN_TRANSIT"
                /\ QueryTime > e => ret = "AT_TERMINUS"
            /\ call.op = "get_tram_position_at_time" =>
                (QueryTime > e => ret = LastStopPosition(block[1]))

\* C2 amended: a block whose only trip spans [s, e] is IN_DEPOT before s,
\* IN_TRANSIT from s to e, and IN_DEPOT again after e, where it has no
\* position.
C2_SingleTripLifecycle ==
    SingleTripCase =>
        LET s == get_start_time_minutes(block[1])
            e == get_end_time_minutes(block[1])
        IN  /\ call.op = "get_status_at_time" =>
                /\ QueryTime < s => ret = "IN_DEPOT"
                /\ (s <= QueryTime /\ QueryTime <= e) => ret = "IN_TRANSIT"
                /\ QueryTime > e => ret = "IN_DEPOT"
            /\ call.op = "get_tram_position_at_time" =>
                (QueryTime > e => ret = None)

\* the position of a single-trip block is asked for after the trip's end
C2_Witness ==
    /\ SingleTripCase
    /\ call.op = "get_tram_position_at_time"
    /\ QueryTime > get_end_time_minutes(block[1])
    /\ ret = None

\* the block waits at a terminus: inside its duty span, no trip active
AtTerminus == block # <<>> /\ ~AnyTripActive /\ ~OutsideDutySpan

\* the trips that have ended by t
Completed == {i \in DOMAIN block : get_end_time_minutes(block[i]) <= QueryTime}

\* C7 as claimed: AT_TERMINUS, positionAt is the last stop of the trip of
\* greatest endMinute among the trips with endMinute <= t, in any stored
\* order of the trips.
C7_Original ==
    (call.op = "get_tram_position_at_time" /\ AtTerminus) =>
        \E i \in Completed :
            /\ \A j \in Completed :
                   get_end_time_minutes(block[j]) <= get_end_time_minutes(block[i])
            /\ ret = LastStopPosition(block[i])

\* C7 amended: AT_TERMINUS, positionAt is the last stop of the last trip in
\* stored order among the trips with endMinute <= t (None when that trip has
\* no StopTimes).
C7_LastCompletedInStoredOrder ==
    (call.op = "get_tram_position_at_time" /\ AtTerminus) =>
        /\ Completed # {}
        /\ LET i == CHOOSE k \in Completed : \A j \in Completed : j <= k
           IN  ret = LastStopPosition(block[i])

\* a waiting tram is shown at the last stop of the last completed trip in
\* stored order while an earlier stored trip ended later
C7_Witness ==
    /\ call.op = "get_tram_position_at_time"
    /\ AtTerminus
    /\ ret # None
    /\ \E i, j \in Completed :
           /\ i < j
           /\ \A k \in Completed : k <= j
           /\ get_end_time_minutes(block[i]) > get_end_time_minutes(block[j])
           /\ ret = LastStopPosition(block[j])

----------------------------------------------------------------------------
(* Properties of the trip resolver, under SpecTrip. *)

\* the trip under query
TheTrip == block[1]

StartMinute == get_start_time_minutes(TheTrip)

EndMinute == get_end_time_minutes(TheTrip)

\* the indices i of the consecutive pairs (stop i, stop i + 1) with
\* a.minute <= t <= b.minute
Bracketing ==
    {i \in 1..(Len(TheTrip.stop_times) - 1) :
        /\ to_minutes(TheTrip.stop_times[i]) <= QueryTime
        /\ QueryTime <= to_minutes(TheTrip.stop_times[i + 1])}

\* the first bracketing pair in stop-sequence order
FirstBracketingPair ==
    LET i == CHOOSE k \in Bracketing : \A j \in Bracketing : k <= j
    IN  <<TheTrip.stop_times[i], TheTrip.stop_times[i + 1]>>

\* C3 as claimed: for every trip and every t in [startMinute, endMinute],
\* currentSegment returns the first consecutive pair (a, b) with
\* a.minute <= t <= b.minute, never None.
C3_Original ==
    (/\ call.op = "get_current_segment"
     /\ StartMinute <= QueryTime
     /\ QueryTime <= EndMinute) =>
        /\ Bracketing # {}
        /\ ret = Some(FirstBracketingPair)

\* C3 amended: for every trip of at least two StopTimes and every t in
\* [startMinute, endMinute], currentSegment returns the first consecutive
\* pair (a, b) with a.minute <= t <= b.minute, never None.
C3_FirstBracketingPair ==
    (/\ call.op = "get_current_segment"
     /\ Len(TheTrip.stop_times) >= 2
     /\ StartMinute <= QueryTime
     /\ QueryTime <= EndMinute) =>
        /\ Bracketing # {}
        /\ ret = Some(FirstBracketingPair)

\* t is bracketed by two pairs of an active trip and the first is returned
C3_Witness ==
    /\ call.op = "get_current_segment"
    /\ StartMinute <= QueryTime
    /\ QueryTime <= EndMinute
    /\ Cardinality(Bracketing) >= 2
    /\ ret = Some(<<TheTrip.stop_times[1], TheTrip.stop_times[2]>>)

\* the minute of the service day a departure_time string denotes, hours of
\* 24 and more counted on
ServiceMinute(st) ==
    LET parts == Split(st.departure_time_str, ":")
    IN  PyInt(parts[1]).val * 60 + PyInt(parts[2]).val

\* the departure times of the trip do not go back in the service day
InServiceDayOrder ==
    \A i \in 1..(Len(TheTrip.stop_times) - 1) :
        ServiceMinute(TheTrip.stop_times[i])
            <= ServiceMinute(TheTrip.stop_times[i + 1])

\* C8 as claimed, on the trips whose departure times are in service-day
\* order: isActiveAt(trip, t) is true exactly when
\* startMinute <= t <= endMinute, and it is true at t = startMinute and at
\* t = endMinute, the minutes of the first and last StopTime.
C8_Original ==
    (/\ call.op = "is_active_at"
     /\ TheTrip.stop_times # <<>>
     /\ InServiceDayOrder) =>
        /\ ret <=> (StartMinute <= QueryTime /\ QueryTime <= EndMinute)
        /\ QueryTime \in {StartMinute, EndMinute} => ret = TRUE

Degenerate == Len(TheTrip.stop_times) <= 1

\* C9 as claimed: for a trip of 0 or 1 StopTimes and every t, isActiveAt is
\* false and currentSegment is None.
C9_Original ==
    Degenerate =>
        /\ call.op = "is_active_at" => ret = FALSE
        /\ call.op = "get_current_segment" => ret = None

\* C9 amended: for a trip of 0 or 1 StopTimes and every t, currentSegment is
\* None, and isActiveAt is true exactly at the minute of the single StopTime
\* (at minute 0 for a trip of no StopTimes) and false at every other t.
C9_DegenerateTrip ==
    Degenerate =>
        /\ call.op = "is_active_at" =>
              (ret <=> QueryTime =
                          (IF TheTrip.stop_times = <<>> THEN 0
                           ELSE to_minutes(TheTrip.stop_times[1])))
        /\ call.op = "get_current_segment" => ret = None

\* a trip of one StopTime is active at that StopTime's minute
C9_Witness ==
    /\ Len(TheTrip.stop_times) = 1
    /\ call.op = "is_active_at"
    /\ QueryTime = to_minutes(TheTrip.stop_times[1])
    /\ ret = TRUE

\* C10, its precondition: no trip of two StopTimes or more is active at a t
\* that no consecutive pair brackets (of m_1 <= t <= m_n, the first i with
\* t <= m_(i+1) has m_i <= t), so the failure C10 describes has no case.
C10_NoUnbracketedActiveTrip ==
    (/\ Len(TheTrip.stop_times) >= 2
     /\ call.op = "get_current_segment"
     /\ StartMinute <= QueryTime
     /\ QueryTime <= EndMinute) => Bracketing # {}

----------------------------------------------------------------------------
(* Properties of the time domain, under SpecTime. *)

\* C4 as claimed: the minute value of a loaded time keeps the order of the
\* service day: h1:m1 before h2:m2 gives minutes(h1:m1) < minutes(h2:m2),
\* hours of 24 and more included.
C4_Original ==
    \A i, j \in DOMAIN loaded :
        ServiceMinute(loaded[i]) < ServiceMinute(loaded[j]) =>
            to_minutes(loaded[i]) < to_minutes(loaded[j])

\* the string is exactly three colon-separated fields of decimal digits
ThreeNumericFields(time_str) ==
    LET parts == Split(time_str, ":")
    IN  /\ Len(parts) = 3
        /\ \A k \in 1..3 :
              /\ parts[k] # <<>>
              /\ \A i \in DOMAIN parts[k] : IsDigit(parts[k][i])

\* C11 as claimed: parseTime fails for every string that is not exactly
\* three colon-separated numeric fields; none is turned into a time value.
C11_Original ==
    (/\ call.op = "parse_time_string"
     /\ ~ThreeNumericFields(call.time_str)) => IsExc(ret)

----------------------------------------------------------------------------
(* Properties of route_segment_coords, under SpecRoute. *)

\* the lowest index, from 0, of the vertices of route nearest to point
NearestIndex(point) ==
    CHOOSE i \in 0..(Len(route) - 1) :
        \A j \in 0..(Len(route) - 1) :
            /\ Dist2(point, route[i + 1]) <= Dist2(point, route[j + 1])
            /\ Dist2(point, route[i + 1]) = Dist2(point, route[j + 1]) => i <= j

StartIndex == NearestIndex(call.s_start)

EndIndex == NearestIndex(call.s_end)

\* polyline[first], ..., polyline[last] ascending, indices from 0
Forward(first, last) == [k \in 1..(last - first + 1) |-> route[first + k]]

\* polyline[first], ..., polyline[last] descending, indices from 0
Backward(first, last) == [k \in 1..(first - last + 1) |-> route[first + 2 - k]]

\* C5 as claimed: with startIndex > endIndex the result is
\* polyline[startIndex], ..., polyline[endIndex + 1]: endIndex is excluded.
C5_Original ==
    (/\ call.op = "route_segment_coords"
     /\ route # <<>>
     /\ StartIndex > EndIndex) => ret = Backward(StartIndex, EndIndex + 1)

\* C5 amended: with startIndex > endIndex >= 1 the result is
\* polyline[startIndex], ..., polyline[endIndex], endIndex included; with
\* startIndex > endIndex = 0 the result is empty.
C5_ReverseSlice ==
    (/\ call.op = "route_segment_coords"
     /\ route # <<>>
     /\ StartIndex > EndIndex) =>
        ret = IF EndIndex >= 1 THEN Backward(StartIndex, EndIndex) ELSE <<>>

\* a reverse segment of three vertices down to an endIndex that is not 0
C5_Witness ==
    /\ call.op = "route_segment_coords"
    /\ route # <<>>
    /\ EndIndex >= 1
    /\ StartIndex = EndIndex + 2
    /\ Len(ret) = 3
    /\ ret[3] = route[EndIndex + 1]

\* C6: with startIndex <= endIndex the result is
\* polyline[startIndex .. endIndex] inclusive in forward order; it is
\* [polyline[i]] when both points are nearest vertex i.
C6_ForwardSlice ==
    (/\ call.op = "route_segment_coords"
     /\ route # <<>>
     /\ StartIndex <= EndIndex) =>
        /\ ret = Forward(StartIndex, EndIndex)
        /\ StartIndex = EndIndex => ret = <<route[StartIndex + 1]>>

\* both points are nearest the same vertex, not the first, of a polyline
C6_Witness ==
    /\ call.op = "route_segment_coords"
    /\ route # <<>>
    /\ call.s_start # call.s_end
    /\ StartIndex = EndIndex
    /\ StartIndex >= 1
    /\ ret = <<route[StartIndex + 1]>>

\* C12 as claimed: with missing data the result is empty and nothing is
\* raised: extractSegment on an empty polyline returns the empty sequence
\* for any two points, and positionAt on a block of no trips is None.
C12_Original ==
    /\ (call.op = "route_segment_coords" /\ route = <<>>) => ret = <<>>
    /\ (call.op = "get_tram_position_at_time" /\ block = <<>>) => ret = None

----------------------------------------------------------------------------
(* Properties of interpolate_position, under SpecInterp. *)

Interpolated == call.op = "interpolate_position"

\* the coordinate value, a rational <<n, d>>, is the share num/den of the way
\* from the whole number a to the whole number b (cross-multiplied)
ShareOfWay(value, a, b, num, den) ==
    value[1] * den = value[2] * (a * den + (b - a) * num)

\* the clamped progress of t on the segment from s to e # s, as a pair
\* <<num, den>> found by comparing signs instead of dividing
ClampedProgress(s, e, t) ==
    IF (t - s) * (e - s) <= 0 THEN <<0, 1>>
    ELSE IF Abs(t - s) >= Abs(e - s) THEN <<1, 1>>
    ELSE <<t - s, e - s>>

----------------------------------------------------------------------------
(* The completed trip behind AT_TERMINUS, under Spec. *)

\* the status the block reports at the queried minute
StatusAtQuery == get_status_at_time(block, QueryTime)

\* the last trip in stored order among the trips that have ended by t
SelectedCompleted == CHOOSE k \in Completed : \A j \in Completed : j <= k

\* C14: whenever the status is AT_TERMINUS some trip of the block has
\* endMinute <= t, in any stored order of the trips; so a waiting tram always
\* has a completed trip to stand at, and positionAt is None at AT_TERMINUS
\* exactly when the selected completed trip has no StopTimes.
C14_TerminusHasCompletedTrip ==
    /\ (call.op = "get_status_at_time" /\ StatusAtQuery = "AT_TERMINUS") =>
           /\ ret = "AT_TERMINUS"
           /\ Completed # {}
    /\ (call.op = "get_tram_position_at_time" /\ StatusAtQuery = "AT_TERMINUS") =>
           /\ Completed # {}
           /\ (ret = None) <=> (block[SelectedCompleted].stop_times = <<>>)

\* a waiting tram has no position because the completed trip selected for it
\* has no StopTimes, while another completed trip has some
C14_Witness ==
    /\ call.op = "get_tram_position_at_time"
    /\ StatusAtQuery = "AT_TERMINUS"
    /\ ret = None
    /\ block[SelectedCompleted].stop_times = <<>>
    /\ \E i \in Completed : block[i].stop_times # <<>>

----------------------------------------------------------------------------
(* Non-emptiness of the extracted segment, under SpecRoute. *)

\* the n vertices met walking the polyline from startIndex towards endIndex
RunTowardsEnd(n) ==
    IF StartIndex <= EndIndex
    THEN Forward(StartIndex, StartIndex + n - 1)
    ELSE Backward(StartIndex, StartIndex - n + 1)

\* C16 as claimed: on a non-empty polyline, for every pair of points, the
\* result is a non-empty sequence that starts at polyline[startIndex] and
\* consists of consecutive vertices between startIndex and endIndex, in the
\* reverse case too and for every endIndex, endIndex = 0 included.
C16_Original ==
    (call.op = "route_segment_coords" /\ route # <<>>) =>
        /\ ret # <<>>
        /\ ret[1] = route[StartIndex + 1]
        /\ \E n \in 1..(Abs(StartIndex - EndIndex) + 1) : ret = RunTowardsEnd(n)

----------------------------------------------------------------------------
(* The animation loop of the page script, under SpecAnim. *)

\* the simulated minute the time display reads
ShownMinute == timeDisplay[1] * 60 + timeDisplay[2]

\* C15 as claimed: under every interleaving of timer ticks and play/pause
\* clicks, each executed update shows the current simulated minute and then
\* advances it by exactly one, so the minutes are shown in ascending order
\* without skips or repeats, and the minute an update displays never exceeds
\* endTime, also when pause/play is clicked after the animation completed.
C15_Original ==
    [][(currentTime' # currentTime \/ timeDisplay' # timeDisplay) =>
           /\ ShownMinute' = currentTime
           /\ currentTime' = currentTime + 1
           /\ ShownMinute' <= endTime]_vars

====
